---- MODULE Spec2Model ----
(***************************************************************************)
(* A model of apple-search-ads-access-token's single::Manager: the two     *)
(* process-wide cache slots, the facade (new, set, clear, get_value,       *)
(* request), the refresh loop run(), and the clock the freshness checks    *)
(* read; and of the create() of the three signers.  Times are whole        *)
(* seconds of SystemTime.                                                  *)
(***************************************************************************)
EXTENDS Integers, FiniteSets, Sequences, TLC

\* ------------------------------------------------------------------ bounds

\* The largest number of failures the exchange stub of SpecStub is set to.
MaxFail == 2

\* The clock reading past which SpecPoll starts no further sleep.
MaxClock == 4000

\* ------------------------------------------------------- program constants

\* single.rs:17  Duration::from_secs(60 * 60 * 24 * 7)
CLIENT_SECRET_EXP_DUR == 60 * 60 * 24 * 7

\* single.rs:173  Duration::from_secs(60 * 10), the assertion safety margin
CLIENT_SECRET_MARGIN == 60 * 10

\* single.rs:194  60 * 5, the token safety margin
ACCESS_TOKEN_MARGIN == 60 * 5

\* apple-search-ads-client-secret lib.rs:12  86400 * 180
EXPIRATION_TIME_DURATION_SECONDS_MAX == 86400 * 180

\* single.rs:111 and 131, the polling sleep; 138, the retry sleep;
\* 126 and 135, the callback timeouts after a success and after a failure.
SLEEP_POLL == 60 * 3
SLEEP_RETRY == 5
CALLBACK_TIMEOUT_OK == 6
CALLBACK_TIMEOUT_ERR == 3

\* ------------------------------------------------------------- input sets

\* Option<T>
None == [some |-> FALSE]
Some(x) == [some |-> TRUE, val |-> x]

\* The instants the system clock is read at.  SystemTime is the wall clock:
\* it may be set forwards or backwards between any two reads.
TimePoints == {0, 3000, 3300, 3400, 604100, 604200, 604300}

\* The instants of the specifications that run whole operations: inside both
\* freshness windows (0), past the token's and inside the assertion's (3400), past
\* both (604300).
CoarsePoints == {0, 3400, 604300}

\* body.expires_in : Option<usize>
ExpiresIn == {None, Some(200), Some(3600)}

AccessTokens == {"tok1", "tok2"}

\* ResponseSuccessfulBody (lib.rs:8), the fields the manager reads
Bodies == [access_token : AccessTokens, expires_in : ExpiresIn]

Managers == {"A", "B"}

\* The tasks that call request(): the refresh loop and a direct caller.
Tasks == {"run", "caller"}

VARIABLES
    now,                    \* SystemTime::now()
    overflow_checks,        \* the build profile: does `-` on u64 panic on overflow
    managers,               \* the Manager values constructed so far
    ACCESS_TOKEN_STORAGE,   \* single.rs:184  Option<(body, issued_at)>
    CLIENT_SECRET_STORAGE,  \* single.rs:164  Option<(client_secret, issued_at)>
    task,                   \* each task's position and locals inside request()/run()
    timer,                  \* the duration of the sleep or timeout run() is in
    exchange_stub,          \* the exchange client: real, or a stub with fails failures left
    callbacks,              \* the stub scenario's callback counts; was the last callback abandoned
    last_pub,               \* history: the last publish to the token slot
    got,                    \* what get_value() has returned since the last publish
    create_call             \* a direct call of a signer's create(): its arguments and result

vars == <<now, overflow_checks, managers, ACCESS_TOKEN_STORAGE, CLIENT_SECRET_STORAGE,
          task, timer, exchange_stub, callbacks, last_pub, got, create_call>>

\* ---------------------------------------------------------- pure functions

\* A mutant of duration_since: the absolute difference, never Err.
duration_since_mut_abs(later, earlier) ==
    IF later >= earlier THEN [ok |-> TRUE, dur |-> later - earlier]
    ELSE [ok |-> TRUE, dur |-> earlier - later]

\* SystemTime::duration_since: Ok(later - earlier), Err when earlier is later.
duration_since(later, earlier) ==
    IF later >= earlier THEN [ok |-> TRUE, dur |-> later - earlier]
    ELSE [ok |-> FALSE, dur |-> 0]

\* a - b on u64.  A difference below zero wraps to 2^64 + (a - b); it is kept as
\* that offset, 2^64 being beyond the model checker's integers.
sub_u64(a, b) ==
    IF a >= b THEN [wrapped |-> FALSE, val |-> a - b]
    ELSE [wrapped |-> TRUE, val |-> a - b]

\* d < s on u64, d a Duration::as_secs() of two clock readings.  A wrapped s is
\* at least 2^64 - 300, above every such d.
lt_u64(d, s) == IF s.wrapped THEN TRUE ELSE d < s.val

\* A mutant of get_not_expired_client_secret: <= in place of < at line 173.
get_not_expired_client_secret_mut_le(storage, t) ==
    IF storage.some
    THEN LET d == duration_since(t, storage.val.issued_at)
         IN  IF d.ok /\ d.dur <= CLIENT_SECRET_EXP_DUR - CLIENT_SECRET_MARGIN
             THEN Some(storage.val.client_secret)
             ELSE None
    ELSE None

\* single.rs:170-179  get_not_expired_client_secret, on a slot and a clock reading
get_not_expired_client_secret(storage, t) ==
    IF storage.some
    THEN LET d == duration_since(t, storage.val.issued_at)
         IN  IF d.ok /\ d.dur < CLIENT_SECRET_EXP_DUR - CLIENT_SECRET_MARGIN
             THEN Some(storage.val.client_secret)
             ELSE None
    ELSE None

\* A mutant of get_not_expired_access_token: the comparison at line 194 turned round.
get_not_expired_access_token_mut_gt(storage, t, checks) ==
    IF storage.some
    THEN LET body == storage.val.body
             d == duration_since(t, storage.val.issued_at)
         IN  IF body.expires_in.some
             THEN IF d.ok
                  THEN LET s == sub_u64(body.expires_in.val, ACCESS_TOKEN_MARGIN)
                       IN  IF s.wrapped /\ checks
                           THEN [panic |-> TRUE, value |-> None]
                           ELSE IF ~s.wrapped /\ d.dur > s.val
                                THEN [panic |-> FALSE, value |-> Some(body)]
                                ELSE [panic |-> FALSE, value |-> None]
                  ELSE [panic |-> FALSE, value |-> None]
             ELSE [panic |-> FALSE, value |-> Some(body)]
    ELSE [panic |-> FALSE, value |-> None]

\* single.rs:190-203  get_not_expired_access_token, on a slot, a clock reading and
\* the build profile.  panic: the subtraction at line 194 overflowed in a build
\* with overflow checks; otherwise value is what the function returns.
get_not_expired_access_token(storage, t, checks) ==
    IF storage.some
    THEN LET body == storage.val.body
             d == duration_since(t, storage.val.issued_at)
         IN  IF body.expires_in.some
             THEN IF d.ok
                  THEN LET s == sub_u64(body.expires_in.val, ACCESS_TOKEN_MARGIN)
                       IN  IF s.wrapped /\ checks
                           THEN [panic |-> TRUE, value |-> None]
                           ELSE IF lt_u64(d.dur, s)
                                THEN [panic |-> FALSE, value |-> Some(body)]
                                ELSE [panic |-> FALSE, value |-> None]
                  ELSE [panic |-> FALSE, value |-> None]
             ELSE [panic |-> FALSE, value |-> Some(body)]
    ELSE [panic |-> FALSE, value |-> None]

\* single.rs:39-45  what get_value() maps a loaded slot to
access_token_of(storage) ==
    IF storage.some THEN Some(storage.val.body.access_token) ELSE None

\* A mutant of client_secret_create: the clamp uses the App Store Connect cap of
\* 6 days.
client_secret_create_mut_cap6d(iat, expiration_time_dur) ==
    LET dur == IF expiration_time_dur > 60 * 60 * 24 * 6
               THEN 60 * 60 * 24 * 6
               ELSE expiration_time_dur
    IN  [iat |-> iat, exp |-> iat + dur]

\* apple-search-ads-client-secret lib.rs:60-67  the claims create() signs:
\* iat is the signer's own clock reading, exp = iat + min(requested, cap).
client_secret_create(iat, expiration_time_dur) ==
    LET dur == IF expiration_time_dur > EXPIRATION_TIME_DURATION_SECONDS_MAX
               THEN EXPIRATION_TIME_DURATION_SECONDS_MAX
               ELSE expiration_time_dur
    IN  [iat |-> iat, exp |-> iat + dur]

\* ------------------------------------------------------------------- state

NotCalled == [called |-> FALSE, value |-> None]

\* No create() has been called directly.
NoCreate == [signer |-> "none"]

\* The exchange client is the real one: each exchange may succeed or fail.
RealExchange == [on |-> FALSE, n |-> 0, fails |-> 0]

\* The exchange client is a stub that fails n times and then succeeds; the signer
\* and the provider do not fail beside it.
StubExchange(n) == [on |-> TRUE, n |-> n, fails |-> n]

\* A task outside request() and run().  self is the Manager a call in progress was
\* made on; signed is history, whether the task's current or last request() called
\* the signer.
IdleTask ==
    [pc |-> "idle", self |-> None, client_secret |-> None, issued_at |-> None,
     ret |-> None, signed |-> FALSE]

\* History: a publish of kind op to the token slot, passing the snapshot entry
\* (a body and its issued_at, or none) and leaving get_value() to return token,
\* made while the managers ms existed.
publish(op, entry, ms) ==
    [op |-> op, entry |-> entry, token |-> access_token_of(entry), managers |-> ms]

TypeOK ==
    /\ now \in Nat
    /\ overflow_checks \in BOOLEAN
    /\ managers \subseteq Managers
    /\ ACCESS_TOKEN_STORAGE.some \in BOOLEAN
    /\ CLIENT_SECRET_STORAGE.some \in BOOLEAN
    /\ DOMAIN task = Tasks

\* The process starts: the statics are empty (single.rs:164-165, 184-185) and no
\* Manager has been constructed.
InitProcess ==
    /\ now = 0
    /\ overflow_checks \in BOOLEAN
    /\ managers = {}
    /\ ACCESS_TOKEN_STORAGE = None
    /\ CLIENT_SECRET_STORAGE = None
    /\ task = [p \in Tasks |-> IdleTask]
    /\ timer = 0
    /\ exchange_stub = RealExchange
    /\ callbacks = [ok |-> 0, err |-> 0, abandoned |-> FALSE]
    /\ last_pub = publish("init", None, {})
    /\ got = NotCalled
    /\ create_call = NoCreate

\* The state after both Managers have been constructed, nothing else done.
Init ==
    /\ now = 0
    /\ overflow_checks \in BOOLEAN
    /\ managers = Managers
    /\ ACCESS_TOKEN_STORAGE = None
    /\ CLIENT_SECRET_STORAGE = None
    /\ task = [p \in Tasks |-> IdleTask]
    /\ timer = 0
    /\ exchange_stub = RealExchange
    /\ callbacks = [ok |-> 0, err |-> 0, abandoned |-> FALSE]
    /\ last_pub = publish("init", None, {})
    /\ got = NotCalled
    /\ create_call = NoCreate

\* ------------------------------------------------------------------ clock

\* Time passes: a later reading of the system clock, among the instants T.
time_passes(T) ==
    /\ \E t \in T : t > now /\ now' = t
    /\ UNCHANGED <<create_call, overflow_checks, managers, ACCESS_TOKEN_STORAGE, CLIENT_SECRET_STORAGE,
                   task, timer, exchange_stub, callbacks, last_pub, got>>

\* A clock anomaly: the system clock is set back, to one of the instants T.
clock_set_back(T) ==
    /\ \E t \in T : t < now /\ now' = t
    /\ UNCHANGED <<create_call, overflow_checks, managers, ACCESS_TOKEN_STORAGE, CLIENT_SECRET_STORAGE,
                   task, timer, exchange_stub, callbacks, last_pub, got>>

\* ----------------------------------------------------------------- facade

\* A mutant of new: a constructor that starts from empty caches.
new_mut_reset(m) ==
    /\ m \notin managers
    /\ managers' = managers \cup {m}
    /\ ACCESS_TOKEN_STORAGE' = None
    /\ CLIENT_SECRET_STORAGE' = None
    /\ UNCHANGED <<create_call, now, overflow_checks, task, timer, exchange_stub, callbacks,
                   last_pub, got>>

\* single.rs:25-27  Manager::new: Self::default() of a unit struct
new(m) ==
    /\ m \notin managers
    /\ managers' = managers \cup {m}
    /\ UNCHANGED <<create_call, now, overflow_checks, ACCESS_TOKEN_STORAGE, CLIENT_SECRET_STORAGE,
                   task, timer, exchange_stub, callbacks, last_pub, got>>

\* A mutant of set: the new snapshot is stored only into an empty slot.
set_mut_if_empty(m, body, issued_at) ==
    /\ m \in managers
    /\ ACCESS_TOKEN_STORAGE' = IF ACCESS_TOKEN_STORAGE.some THEN ACCESS_TOKEN_STORAGE
                               ELSE Some([body |-> body, issued_at |-> issued_at])
    /\ last_pub' = publish("set", Some([body |-> body, issued_at |-> issued_at]), managers)
    /\ got' = NotCalled
    /\ UNCHANGED <<create_call, now, overflow_checks, managers, CLIENT_SECRET_STORAGE,
                   task, timer, exchange_stub, callbacks>>

\* A mutant of set: the body and the issued_at are stored one after the other, and
\* a reader or writer in between finds the new body beside the old issued_at.
set_mut_torn(m, body, issued_at) ==
    /\ m \in managers
    /\ ACCESS_TOKEN_STORAGE' =
           IF ACCESS_TOKEN_STORAGE.some
           THEN Some([body |-> body, issued_at |-> ACCESS_TOKEN_STORAGE.val.issued_at])
           ELSE Some([body |-> body, issued_at |-> issued_at])
    /\ last_pub' = publish("set", Some([body |-> body, issued_at |-> issued_at]), managers)
    /\ got' = NotCalled
    /\ UNCHANGED <<create_call, now, overflow_checks, managers, CLIENT_SECRET_STORAGE,
                   task, timer, exchange_stub, callbacks>>

\* single.rs:29-32  Manager::set
set(m, body, issued_at) ==
    /\ m \in managers
    /\ ACCESS_TOKEN_STORAGE' = Some([body |-> body, issued_at |-> issued_at])
    /\ last_pub' = publish("set", Some([body |-> body, issued_at |-> issued_at]), managers)
    /\ got' = NotCalled
    /\ UNCHANGED <<create_call, now, overflow_checks, managers, CLIENT_SECRET_STORAGE,
                   task, timer, exchange_stub, callbacks>>

\* A mutant of clear: the empty snapshot is built and never stored.
clear_mut_not_stored(m) ==
    /\ m \in managers
    /\ last_pub' = publish("clear", None, managers)
    /\ got' = NotCalled
    /\ UNCHANGED <<create_call, now, overflow_checks, managers, ACCESS_TOKEN_STORAGE,
                   CLIENT_SECRET_STORAGE, task, timer, exchange_stub, callbacks>>

\* A mutant of clear: both slots are emptied.
clear_mut_both_slots(m) ==
    /\ m \in managers
    /\ ACCESS_TOKEN_STORAGE' = None
    /\ CLIENT_SECRET_STORAGE' = None
    /\ last_pub' = publish("clear", None, managers)
    /\ got' = NotCalled
    /\ UNCHANGED <<create_call, now, overflow_checks, managers,
                   task, timer, exchange_stub, callbacks>>

\* single.rs:34-37  Manager::clear
clear(m) ==
    /\ m \in managers
    /\ ACCESS_TOKEN_STORAGE' = None
    /\ last_pub' = publish("clear", None, managers)
    /\ got' = NotCalled
    /\ UNCHANGED <<create_call, now, overflow_checks, managers, CLIENT_SECRET_STORAGE,
                   task, timer, exchange_stub, callbacks>>

\* single.rs:39-45  what get_value() returns on Manager m: self is not read, the
\* static slot is loaded.
value_of(m) == access_token_of(ACCESS_TOKEN_STORAGE)

\* single.rs:39-45  Manager::get_value, by a reader holding m
get_value(m) ==
    /\ m \in managers
    /\ got' = [called |-> TRUE, value |-> value_of(m)]
    /\ UNCHANGED <<create_call, now, overflow_checks, managers, ACCESS_TOKEN_STORAGE,
                   CLIENT_SECRET_STORAGE, task, timer, exchange_stub, callbacks, last_pub>>

\* ---------------------------------------------------------------- request

\* The variables no step of request() or run() writes.
env_vars == <<now, overflow_checks, managers, last_pub, got, create_call>>

\* request() returns ret to task p (signed: whether it called the signer).  The direct caller is idle again; run() goes
\* on into the arm of its match (single.rs:124-136): it invokes the callback with
\* ret under the timeout of that arm.
returns(p, ret, signed) ==
    /\ task' = [task EXCEPT ![p] = [pc |-> IF p = "run" THEN "callback" ELSE "idle",
                                    self |-> IF p = "run" THEN task[p].self ELSE None,
                                    client_secret |-> None,
                                    issued_at |-> None,
                                    ret |-> Some(ret),
                                    signed |-> signed]]
    /\ timer' = IF p # "run" THEN timer
                ELSE IF ret.ok THEN CALLBACK_TIMEOUT_OK ELSE CALLBACK_TIMEOUT_ERR
    /\ callbacks' = IF p = "run" /\ exchange_stub.on
                    THEN IF ret.ok THEN [callbacks EXCEPT !.ok = @ + 1]
                         ELSE [callbacks EXCEPT !.err = @ + 1]
                    ELSE callbacks

\* A direct call of request() on manager m (single.rs:47-53).
caller_request(m) ==
    /\ m \in managers
    /\ task["caller"].pc = "idle"
    /\ task' = [task EXCEPT !["caller"] = [@ EXCEPT !.pc = "request", !.self = Some(m)]]
    /\ UNCHANGED <<ACCESS_TOKEN_STORAGE, CLIENT_SECRET_STORAGE, timer, exchange_stub,
                   callbacks>>
    /\ UNCHANGED env_vars

\* A mutant of request_begin: the assertion cache is not asked, the signer is
\* called by every request().
request_begin_mut_always_sign(p) ==
    /\ task[p].pc = "request"
    /\ task' = [task EXCEPT ![p] =
           [pc |-> "sign", self |-> task[p].self, client_secret |-> None,
            issued_at |-> Some(now), ret |-> None, signed |-> FALSE]]
    /\ UNCHANGED <<ACCESS_TOKEN_STORAGE, CLIENT_SECRET_STORAGE, timer, exchange_stub,
                   callbacks>>
    /\ UNCHANGED env_vars

\* A mutant of request_begin: a request() that finds a fresh token in the token
\* slot returns it without an exchange.
request_begin_mut_cached_token(p) ==
    /\ task[p].pc = "request"
    /\ LET r == get_not_expired_access_token(ACCESS_TOKEN_STORAGE, now, FALSE)
           x == get_not_expired_client_secret(CLIENT_SECRET_STORAGE, now)
       IN  IF r.value.some
           THEN returns(p, [ok |-> TRUE, body |-> r.value.val,
                            issued_at |-> ACCESS_TOKEN_STORAGE.val.issued_at], FALSE)
           ELSE /\ task' = [task EXCEPT ![p] =
                       IF x.some
                       THEN [pc |-> "provider", self |-> task[p].self, client_secret |-> x,
                             issued_at |-> None, ret |-> None, signed |-> FALSE]
                       ELSE [pc |-> "sign", self |-> task[p].self, client_secret |-> None,
                             issued_at |-> Some(now), ret |-> None, signed |-> FALSE]]
                /\ UNCHANGED <<timer, callbacks>>
    /\ UNCHANGED <<ACCESS_TOKEN_STORAGE, CLIENT_SECRET_STORAGE, exchange_stub>>
    /\ UNCHANGED env_vars

\* single.rs:54-57  the assertion cache is asked for a fresh assertion: a fresh one
\* is used as it is; with none, the clock is read and the signer is called next.
request_begin(p) ==
    /\ task[p].pc = "request"
    /\ LET x == get_not_expired_client_secret(CLIENT_SECRET_STORAGE, now)
       IN  task' = [task EXCEPT ![p] =
                IF x.some
                THEN [pc |-> "provider", self |-> task[p].self, client_secret |-> x,
                      issued_at |-> None, ret |-> None, signed |-> FALSE]
                ELSE [pc |-> "sign", self |-> task[p].self, client_secret |-> None,
                      issued_at |-> Some(now), ret |-> None, signed |-> FALSE]]
    /\ UNCHANGED <<ACCESS_TOKEN_STORAGE, CLIENT_SECRET_STORAGE, timer, exchange_stub,
                   callbacks>>
    /\ UNCHANGED env_vars

\* single.rs:58-71  the signer succeeds (it stamps iat from its own clock reading);
\* the new assertion is stored with the issued_at read at line 57.
request_sign_ok(p) ==
    /\ task[p].pc = "sign"
    /\ LET client_secret == client_secret_create(now, CLIENT_SECRET_EXP_DUR)
       IN  /\ CLIENT_SECRET_STORAGE' = Some([client_secret |-> client_secret,
                                             issued_at |-> task[p].issued_at.val])
           /\ task' = [task EXCEPT ![p] = [pc |-> "provider",
                                           self |-> task[p].self,
                                           client_secret |-> Some(client_secret),
                                           issued_at |-> None, ret |-> None,
                                           signed |-> TRUE]]
    /\ UNCHANGED <<ACCESS_TOKEN_STORAGE, timer, exchange_stub, callbacks>>
    /\ UNCHANGED env_vars

\* single.rs:66  the signer fails: Err(ClientSecretCreateFailed)
request_sign_err(p) ==
    /\ task[p].pc = "sign"
    /\ ~exchange_stub.on
    /\ returns(p, [ok |-> FALSE, err |-> "ClientSecretCreateFailed"], TRUE)
    /\ UNCHANGED <<ACCESS_TOKEN_STORAGE, CLIENT_SECRET_STORAGE, exchange_stub>>
    /\ UNCHANGED env_vars

\* A mutant of request_provider_ok: a request() waits while another task's
\* exchange is in flight.
request_provider_ok_mut_dedup(p) ==
    /\ task[p].pc = "provider"
    /\ \A q \in Tasks \ {p} : task[q].pc # "exchange"
    /\ task' = [task EXCEPT ![p] = [@ EXCEPT !.pc = "exchange", !.issued_at = Some(now)]]
    /\ UNCHANGED <<ACCESS_TOKEN_STORAGE, CLIENT_SECRET_STORAGE, timer, exchange_stub,
                   callbacks>>
    /\ UNCHANGED env_vars

\* single.rs:75-82  the provider is made; the clock is read; the exchange starts.
request_provider_ok(p) ==
    /\ task[p].pc = "provider"
    /\ task' = [task EXCEPT ![p] = [@ EXCEPT !.pc = "exchange", !.issued_at = Some(now)]]
    /\ UNCHANGED <<ACCESS_TOKEN_STORAGE, CLIENT_SECRET_STORAGE, timer, exchange_stub,
                   callbacks>>
    /\ UNCHANGED env_vars

\* single.rs:80  the provider cannot be made: Err(OauthProviderMakeFailed)
request_provider_err(p) ==
    /\ task[p].pc = "provider"
    /\ ~exchange_stub.on
    /\ returns(p, [ok |-> FALSE, err |-> "OauthProviderMakeFailed"], task[p].signed)
    /\ UNCHANGED <<ACCESS_TOKEN_STORAGE, CLIENT_SECRET_STORAGE, exchange_stub>>
    /\ UNCHANGED env_vars

\* A mutant of request_exchange_ok: the pair is returned without being stored.
request_exchange_ok_mut_unpublished(p, body) ==
    /\ task[p].pc = "exchange"
    /\ exchange_stub.on => exchange_stub.fails = 0
    /\ returns(p, [ok |-> TRUE, body |-> body, issued_at |-> task[p].issued_at.val],
               task[p].signed)
    /\ UNCHANGED <<ACCESS_TOKEN_STORAGE, CLIENT_SECRET_STORAGE, exchange_stub>>
    /\ UNCHANGED env_vars

\* A mutant of request_exchange_ok: issued_at is read when the exchange returns.
request_exchange_ok_mut_stamps_after(p, body) ==
    /\ task[p].pc = "exchange"
    /\ exchange_stub.on => exchange_stub.fails = 0
    /\ ACCESS_TOKEN_STORAGE' = Some([body |-> body, issued_at |-> now])
    /\ last_pub' = publish("request", Some([body |-> body, issued_at |-> now]), managers)
    /\ got' = NotCalled
    /\ returns(p, [ok |-> TRUE, body |-> body, issued_at |-> now], task[p].signed)
    /\ UNCHANGED <<CLIENT_SECRET_STORAGE, exchange_stub>>
    /\ UNCHANGED <<create_call, now, overflow_checks, managers>>

\* single.rs:83-91  the exchange answers with body: the token is published with the
\* issued_at read at line 82, and the same pair is returned.
request_exchange_ok(p, body) ==
    /\ task[p].pc = "exchange"
    /\ exchange_stub.on => exchange_stub.fails = 0
    /\ ACCESS_TOKEN_STORAGE' = Some([body |-> body, issued_at |-> task[p].issued_at.val])
    /\ last_pub' = publish("request", Some([body |-> body, issued_at |-> task[p].issued_at.val]),
                        managers)
    /\ got' = NotCalled
    /\ returns(p, [ok |-> TRUE, body |-> body, issued_at |-> task[p].issued_at.val],
               task[p].signed)
    /\ UNCHANGED <<CLIENT_SECRET_STORAGE, exchange_stub>>
    /\ UNCHANGED <<create_call, now, overflow_checks, managers>>

\* A mutant of request_exchange_err: a failed exchange empties the token slot.
request_exchange_err_mut_clears(p) ==
    /\ task[p].pc = "exchange"
    /\ exchange_stub.on => exchange_stub.fails > 0
    /\ exchange_stub' = IF exchange_stub.on
                        THEN [exchange_stub EXCEPT !.fails = @ - 1]
                        ELSE exchange_stub
    /\ returns(p, [ok |-> FALSE, err |-> "AccessTokenRequestFailed"], task[p].signed)
    /\ ACCESS_TOKEN_STORAGE' = None
    /\ UNCHANGED CLIENT_SECRET_STORAGE
    /\ UNCHANGED env_vars

\* A mutant of request_exchange_err: a failed exchange is tried again inside the
\* same request().
request_exchange_err_mut_retries(p) ==
    /\ task[p].pc = "exchange"
    /\ exchange_stub.on => exchange_stub.fails > 0
    /\ exchange_stub' = IF exchange_stub.on
                        THEN [exchange_stub EXCEPT !.fails = @ - 1]
                        ELSE exchange_stub
    /\ task' = [task EXCEPT ![p] = [@ EXCEPT !.pc = "provider", !.issued_at = None]]
    /\ UNCHANGED <<ACCESS_TOKEN_STORAGE, CLIENT_SECRET_STORAGE, timer, callbacks>>
    /\ UNCHANGED env_vars

\* single.rs:86  the exchange fails: Err(AccessTokenRequestFailed)
request_exchange_err(p) ==
    /\ task[p].pc = "exchange"
    /\ exchange_stub.on => exchange_stub.fails > 0
    /\ exchange_stub' = IF exchange_stub.on
                        THEN [exchange_stub EXCEPT !.fails = @ - 1]
                        ELSE exchange_stub
    /\ returns(p, [ok |-> FALSE, err |-> "AccessTokenRequestFailed"], task[p].signed)
    /\ UNCHANGED <<ACCESS_TOKEN_STORAGE, CLIENT_SECRET_STORAGE>>
    /\ UNCHANGED env_vars

\* -------------------------------------------------------------------- run

\* run() is called on manager m (single.rs:94-109), on a task of its own.
run_start(m) ==
    /\ m \in managers
    /\ task["run"].pc = "idle"
    /\ task' = [task EXCEPT !["run"] = [IdleTask EXCEPT !.pc = "check", !.self = Some(m)]]
    /\ UNCHANGED <<ACCESS_TOKEN_STORAGE, CLIENT_SECRET_STORAGE, timer, exchange_stub,
                   callbacks>>
    /\ UNCHANGED env_vars

\* A mutant of run_check: the head of the loop calls request() whatever it finds.
run_check_mut_requests ==
    /\ task["run"].pc = "check"
    /\ LET r == get_not_expired_access_token(ACCESS_TOKEN_STORAGE, now, overflow_checks)
       IN  /\ task' = [task EXCEPT !["run"] =
                  [IdleTask EXCEPT !.self = task["run"].self,
                                   !.pc = IF r.panic THEN "panicked" ELSE "request"]]
           /\ timer' = 0
    /\ UNCHANGED <<ACCESS_TOKEN_STORAGE, CLIENT_SECRET_STORAGE, exchange_stub, callbacks>>
    /\ UNCHANGED env_vars

\* single.rs:110-122  the head of the loop: a fresh token sends it to the polling
\* sleep, none to request(); an overflow panic at line 194 unwinds out of run().
run_check ==
    /\ task["run"].pc = "check"
    /\ LET r == get_not_expired_access_token(ACCESS_TOKEN_STORAGE, now, overflow_checks)
       IN  /\ task' = [task EXCEPT !["run"] =
                  [IdleTask EXCEPT !.self = task["run"].self,
                                   !.pc = IF r.panic THEN "panicked"
                                          ELSE IF r.value.some THEN "sleep"
                                          ELSE "request"]]
           /\ timer' = IF ~r.panic /\ r.value.some THEN SLEEP_POLL ELSE 0
    /\ UNCHANGED <<ACCESS_TOKEN_STORAGE, CLIENT_SECRET_STORAGE, exchange_stub, callbacks>>
    /\ UNCHANGED env_vars

\* A mutant of sleep_after: a retry delay that doubles with each consecutive failure.
sleep_after_mut_backoff(ret) ==
    IF ret.ok THEN SLEEP_POLL ELSE SLEEP_RETRY * (2 ^ callbacks.err)

\* The sleep that follows a callback: single.rs:131 after Ok, 138 after Err.
sleep_after(ret) == IF ret.ok THEN SLEEP_POLL ELSE SLEEP_RETRY

\* single.rs:125-129, 135-136  the callback's future completes inside its timeout.
run_callback_done ==
    /\ task["run"].pc = "callback"
    /\ task' = [task EXCEPT !["run"].pc = "sleep"]
    /\ timer' = sleep_after(task["run"].ret.val)
    /\ callbacks' = [callbacks EXCEPT !.abandoned = FALSE]
    /\ UNCHANGED <<ACCESS_TOKEN_STORAGE, CLIENT_SECRET_STORAGE, exchange_stub>>
    /\ UNCHANGED env_vars

\* A mutant of run_callback_timeout: a callback timeout is taken for a failure of
\* the attempt, and the loop goes to the retry sleep.
run_callback_timeout_mut_retry ==
    /\ task["run"].pc = "callback"
    /\ task' = [task EXCEPT !["run"].pc = "sleep"]
    /\ timer' = SLEEP_RETRY
    /\ callbacks' = [callbacks EXCEPT !.abandoned = TRUE]
    /\ UNCHANGED <<ACCESS_TOKEN_STORAGE, CLIENT_SECRET_STORAGE, exchange_stub>>
    /\ UNCHANGED env_vars

\* single.rs:125-129, 135-136  the timeout elapses first: the callback's future is
\* dropped and the result of timeout() is discarded (let _ =).
run_callback_timeout ==
    /\ task["run"].pc = "callback"
    /\ task' = [task EXCEPT !["run"].pc = "sleep"]
    /\ timer' = sleep_after(task["run"].ret.val)
    /\ callbacks' = [callbacks EXCEPT !.abandoned = TRUE]
    /\ UNCHANGED <<ACCESS_TOKEN_STORAGE, CLIENT_SECRET_STORAGE, exchange_stub>>
    /\ UNCHANGED env_vars

\* single.rs:111-112, 131-132, 138-139  the sleep ends; continue.
run_sleep_done ==
    /\ task["run"].pc = "sleep"
    /\ task' = [task EXCEPT !["run"].pc = "check"]
    /\ timer' = 0
    /\ callbacks' = [callbacks EXCEPT !.abandoned = FALSE]
    /\ UNCHANGED <<ACCESS_TOKEN_STORAGE, CLIENT_SECRET_STORAGE, exchange_stub>>
    /\ UNCHANGED env_vars

\* ---------------------------------------------------------- specifications

\* The refresh loop and the requests it makes, the exchange answering from B.
run_steps(B) ==
    \/ run_start("A")
    \/ run_check
    \/ request_begin("run")
    \/ request_sign_ok("run")
    \/ request_sign_err("run")
    \/ request_provider_ok("run")
    \/ request_provider_err("run")
    \/ \E body \in B : request_exchange_ok("run", body)
    \/ request_exchange_err("run")
    \/ run_callback_done
    \/ run_callback_timeout
    \/ run_sleep_done

\* A task calling request() directly, the exchange answering from B.
caller_steps(B) ==
    \/ \E m \in Managers : caller_request(m)
    \/ request_begin("caller")
    \/ request_sign_ok("caller")
    \/ request_sign_err("caller")
    \/ request_provider_ok("caller")
    \/ request_provider_err("caller")
    \/ \E body \in B : request_exchange_ok("caller", body)
    \/ request_exchange_err("caller")

\* The callers of the facade's synchronous methods on the Managers M, set() given
\* a body of B and an issued_at of T.
facade_steps(M, B, T) ==
    \/ \E m \in M, body \in B, t \in T : set(m, body, t)
    \/ \E m \in M : clear(m)
    \/ \E m \in M : get_value(m)

\* Spec: one refresh loop, run on Manager A, with callers of set, clear and
\* get_value on Manager B beside it (as in the source's example, where one Manager
\* runs the loop and another is read).
Next ==
    \/ time_passes(CoarsePoints)
    \/ clock_set_back(CoarsePoints)
    \/ facade_steps({"B"}, Bodies, CoarsePoints)
    \/ run_steps(Bodies)

Spec == Init /\ [][Next]_vars

\* The bodies of SpecCaller, where no freshness check reads the token slot.
PlainBodies == {body \in Bodies : body.expires_in = Some(3600)}

\* SpecCaller: from the start of the process, Managers are constructed and used for
\* direct request() calls, with callers of set, clear and get_value beside them.
NextCaller ==
    \/ time_passes(CoarsePoints)
    \/ clock_set_back(CoarsePoints)
    \/ \E m \in Managers : new(m)
    \/ facade_steps(Managers, PlainBodies, {0})
    \/ caller_steps(PlainBodies)

SpecCaller == InitProcess /\ [][NextCaller]_vars

\* SpecFresh: the two freshness checks as functions of a cache entry and the
\* clock.  The slots start with any entry set() or request() can publish and are
\* not published to again; the clock moves among TimePoints; run() applies the
\* token check at its head and, through request(), the assertion check.
TokenEntries ==
    {Some([body |-> body, issued_at |-> t]) : body \in Bodies, t \in TimePoints}

AssertionEntries ==
    {Some([client_secret |-> client_secret_create(t, CLIENT_SECRET_EXP_DUR),
           issued_at |-> t]) : t \in TimePoints}

InitFresh ==
    /\ now = 0
    /\ overflow_checks \in BOOLEAN
    /\ managers = Managers
    /\ ACCESS_TOKEN_STORAGE \in {None} \cup TokenEntries
    /\ CLIENT_SECRET_STORAGE \in {None} \cup AssertionEntries
    /\ task = [p \in Tasks |-> IF p = "run"
                               THEN [IdleTask EXCEPT !.pc = "check", !.self = Some("A")]
                               ELSE IdleTask]
    /\ timer = 0
    /\ exchange_stub = RealExchange
    /\ callbacks = [ok |-> 0, err |-> 0, abandoned |-> FALSE]
    /\ last_pub = publish(IF ACCESS_TOKEN_STORAGE.some THEN "set" ELSE "init",
                          ACCESS_TOKEN_STORAGE, Managers)
    /\ got = NotCalled
    /\ create_call = NoCreate

NextFresh ==
    \/ time_passes(TimePoints)
    \/ clock_set_back(TimePoints)
    \/ run_check
    \/ request_begin("run")
    \/ request_sign_err("run")
    \/ request_provider_err("run")
    \/ run_callback_done
    \/ run_callback_timeout
    \/ run_sleep_done

SpecFresh == InitFresh /\ [][NextFresh]_vars

\* The instants of SpecConcurrent: the start, the last second of the window of an
\* assertion issued at the start, and a later instant past that window.
RacePoints == {0, 604199, 604300}

\* SpecConcurrent: the refresh loop and a direct caller of request() run side by
\* side on the two Managers, their steps interleaved in every order; the clock
\* only moves forwards.
NextConcurrent ==
    \/ time_passes(RacePoints)
    \/ run_steps(PlainBodies)
    \/ caller_steps(PlainBodies)

SpecConcurrent == Init /\ [][NextConcurrent]_vars

\* The records SpecPoll's exchange answers with and its token slot starts with:
\* no expires_in, one below the 300 s margin, one 200 s above it, and an hour.
PollBodies ==
    [access_token : {"tok1"}, expires_in : {None, Some(200), Some(500), Some(3600)}]

\* single.rs:111-112, 131-132, 138-139  the sleep ends, having taken its
\* duration and no more: the clock reads that much later.
run_sleep_elapsed ==
    /\ task["run"].pc = "sleep"
    /\ now + timer <= MaxClock
    /\ now' = now + timer
    /\ task' = [task EXCEPT !["run"].pc = "check"]
    /\ timer' = 0
    /\ callbacks' = [callbacks EXCEPT !.abandoned = FALSE]
    /\ UNCHANGED <<ACCESS_TOKEN_STORAGE, CLIENT_SECRET_STORAGE, exchange_stub>>
    /\ UNCHANGED <<overflow_checks, managers, last_pub, got, create_call>>

\* SpecPoll: run() alone, on a clock that its sleeps advance.  The token slot
\* starts empty or with an entry issued at the start; the exchange fails at most
\* MaxFail times.
InitPoll ==
    /\ now = 0
    /\ overflow_checks \in BOOLEAN
    /\ managers = Managers
    /\ ACCESS_TOKEN_STORAGE \in
           {None} \cup {Some([body |-> body, issued_at |-> 0]) : body \in PollBodies}
    /\ CLIENT_SECRET_STORAGE = None
    /\ task = [p \in Tasks |-> IF p = "run"
                               THEN [IdleTask EXCEPT !.pc = "check", !.self = Some("A")]
                               ELSE IdleTask]
    /\ timer = 0
    /\ \E n \in 0..MaxFail : exchange_stub = StubExchange(n)
    /\ callbacks = [ok |-> 0, err |-> 0, abandoned |-> FALSE]
    /\ last_pub = publish(IF ACCESS_TOKEN_STORAGE.some THEN "set" ELSE "init",
                          ACCESS_TOKEN_STORAGE, Managers)
    /\ got = NotCalled
    /\ create_call = NoCreate

NextPoll ==
    \/ run_check
    \/ request_begin("run")
    \/ request_sign_ok("run")
    \/ request_provider_ok("run")
    \/ \E body \in PollBodies : request_exchange_ok("run", body)
    \/ request_exchange_err("run")
    \/ run_callback_done
    \/ run_callback_timeout
    \/ run_sleep_elapsed

SpecPoll == InitPoll /\ [][NextPoll]_vars

\* The instants of SpecConcurrentSkew.
SkewPoints == {0, 604199}

\* SpecConcurrentSkew: the loop and a direct caller of request() side by side, on
\* a clock that moves forwards and may be set back.
NextConcurrentSkew ==
    \/ time_passes(SkewPoints)
    \/ clock_set_back(SkewPoints)
    \/ run_steps(PlainBodies)
    \/ caller_steps(PlainBodies)

SpecConcurrentSkew == Init /\ [][NextConcurrentSkew]_vars

\* ----------------------------------------------------------------- signers

\* apple-app-store-connect-api-token lib.rs:11  60 * 60 * 24 * 6
APP_STORE_CONNECT_EXPIRATION_TIME_DURATION_SECONDS_MAX == 60 * 60 * 24 * 6

\* apple-app-store-connect-api-token lib.rs:13  60 * 20
EXPIRATION_TIME_DURATION_SECONDS_MAX_FOR_MOST_REQUESTS == 60 * 20

\* apple-siwa-client-secret lib.rs:12
SIWA_EXPIRATION_TIME_DURATION_SECONDS_MAX == 15777000

\* core::time::Duration: whole seconds and the nanoseconds beyond them.
Duration(secs, nanos) == [secs |-> secs, nanos |-> nanos]

\* Duration::as_secs: the whole seconds, the fraction dropped.
as_secs(d) == d.secs

\* The expiration_time_dur arguments: none, and durations below, at, a fraction of
\* a second above, a second above and far above each signer's cap.
ExpirationTimeDurs ==
    {None} \cup
    {Some(Duration(secs, 0)) :
        secs \in {0, 60 * 20, 60 * 60 * 10,
                  60 * 60 * 24 * 6, 60 * 60 * 24 * 6 + 1,
                  86400 * 180, 86400 * 180 + 1,
                  15777000, 15777000 + 1, 2000000000}} \cup
    {Some(Duration(secs, 500000000)) :
        secs \in {60 * 60 * 24 * 6 - 1, 60 * 60 * 24 * 6, 86400 * 180, 15777000}}

\* The issued_at arguments: none (the signer reads the clock) or a given instant.
IssuedAts == {None, Some(0), Some(3000)}

\* What a signer's key handling and signature come to, for the key it is given:
\* "ok", or the CreateError it returns.
AppStoreConnectKeys == {"ok", "MakeEncodingKeyFailed", "EncodeFailed"}
SearchAdsKeys ==
    {"ok", "MakeEcKeyFailed", "MakePKeyFailed", "ToPemPkcs8Failed",
     "MakeEncodingKeyFailed", "EncodeFailed"}
SiwaKeys == {"ok", "MakeEcKeyFailed", "MakePKeyFailed", "TokenSignFailed"}

\* The errors a signer returns before it computes the claims.
KeyErrors == {"MakeEcKeyFailed", "MakePKeyFailed", "ToPemPkcs8Failed", "MakeEncodingKeyFailed"}

Ok(value) == [ok |-> TRUE, value |-> value]
Err(err) == [ok |-> FALSE, err |-> err]

\* A mutant of app_store_connect_api_token_create: an expiration above the cap is
\* rejected.
app_store_connect_api_token_create_mut_rejects(key, issued_at, expiration_time_dur, utc_now) ==
    IF key \in KeyErrors THEN Err(key)
    ELSE LET iat == IF issued_at.some THEN issued_at.val ELSE utc_now
             dur == IF expiration_time_dur.some
                    THEN as_secs(expiration_time_dur.val)
                    ELSE EXPIRATION_TIME_DURATION_SECONDS_MAX_FOR_MOST_REQUESTS
         IN  IF dur > APP_STORE_CONNECT_EXPIRATION_TIME_DURATION_SECONDS_MAX
             THEN Err("ExpirationTimeTooLong")
             ELSE IF key # "ok" THEN Err(key)
             ELSE Ok([iat |-> iat, exp |-> iat + dur])

\* apple-app-store-connect-api-token lib.rs:28-63  create: the key is made
\* (36-37), issued_at defaults to the clock (43), the expiration to 20 minutes
\* (44-46) and is clamped to the cap (47-49), exp is issued_at plus its whole
\* seconds (50), and the claims are signed (60).
app_store_connect_api_token_create(key, issued_at, expiration_time_dur, utc_now) ==
    IF key \in KeyErrors THEN Err(key)
    ELSE LET iat == IF issued_at.some THEN issued_at.val ELSE utc_now
             dur == IF expiration_time_dur.some
                    THEN as_secs(expiration_time_dur.val)
                    ELSE EXPIRATION_TIME_DURATION_SECONDS_MAX_FOR_MOST_REQUESTS
             clamped == IF dur > APP_STORE_CONNECT_EXPIRATION_TIME_DURATION_SECONDS_MAX
                        THEN APP_STORE_CONNECT_EXPIRATION_TIME_DURATION_SECONDS_MAX
                        ELSE dur
         IN  IF key # "ok" THEN Err(key)
             ELSE Ok([iat |-> iat, exp |-> iat + clamped])

\* apple-search-ads-client-secret lib.rs:28-80  create: the key is made (36-54),
\* issued_at defaults to the clock (60), the expiration to the cap (61-63); the
\* clamp and exp (64-67) are client_secret_create's; the claims are signed (77).
search_ads_client_secret_create(key, issued_at, expiration_time_dur, utc_now) ==
    IF key \in KeyErrors THEN Err(key)
    ELSE LET iat == IF issued_at.some THEN issued_at.val ELSE utc_now
             dur == IF expiration_time_dur.some
                    THEN as_secs(expiration_time_dur.val)
                    ELSE EXPIRATION_TIME_DURATION_SECONDS_MAX
         IN  IF key # "ok" THEN Err(key)
             ELSE Ok(client_secret_create(iat, dur))

\* apple-siwa-client-secret lib.rs:26-71  create: the key is made (35-41),
\* issued_at defaults to the clock (49), the expiration to the cap (50-52) and is
\* clamped to it (53-55), exp is issued_at plus its whole seconds (56), and the
\* claims are signed (66-68).
siwa_client_secret_create(key, issued_at, expiration_time_dur, utc_now) ==
    IF key \in KeyErrors THEN Err(key)
    ELSE LET iat == IF issued_at.some THEN issued_at.val ELSE utc_now
             dur == IF expiration_time_dur.some
                    THEN as_secs(expiration_time_dur.val)
                    ELSE SIWA_EXPIRATION_TIME_DURATION_SECONDS_MAX
             clamped == IF dur > SIWA_EXPIRATION_TIME_DURATION_SECONDS_MAX
                        THEN SIWA_EXPIRATION_TIME_DURATION_SECONDS_MAX
                        ELSE dur
         IN  IF key # "ok" THEN Err(key)
             ELSE Ok([iat |-> iat, exp |-> iat + clamped])

\* A call of create() on signer, with its arguments, the clock reading and the result.
created(signer, key, issued_at, expiration_time_dur, result) ==
    [signer |-> signer, key |-> key, issued_at |-> issued_at,
     expiration_time_dur |-> expiration_time_dur, utc_now |-> now, result |-> result]

\* The variables a direct call of create() leaves alone.
manager_vars ==
    <<now, overflow_checks, managers, ACCESS_TOKEN_STORAGE, CLIENT_SECRET_STORAGE,
      task, timer, exchange_stub, callbacks, last_pub, got>>

\* A program calls the App Store Connect signer.
create_app_store_connect_api_token(key, issued_at, expiration_time_dur) ==
    /\ create_call' = created("app_store_connect", key, issued_at, expiration_time_dur,
           app_store_connect_api_token_create(key, issued_at, expiration_time_dur, now))
    /\ UNCHANGED manager_vars

\* A program calls the Search Ads signer.
create_search_ads_client_secret(key, issued_at, expiration_time_dur) ==
    /\ create_call' = created("search_ads", key, issued_at, expiration_time_dur,
           search_ads_client_secret_create(key, issued_at, expiration_time_dur, now))
    /\ UNCHANGED manager_vars

\* A program calls the Sign in with Apple signer.
create_siwa_client_secret(key, issued_at, expiration_time_dur) ==
    /\ create_call' = created("siwa", key, issued_at, expiration_time_dur,
           siwa_client_secret_create(key, issued_at, expiration_time_dur, now))
    /\ UNCHANGED manager_vars

\* SpecSigner: programs call the three signers, with every key outcome, with and
\* without an issued_at, with and without an expiration, as the clock moves.
NextSigner ==
    \/ time_passes(CoarsePoints)
    \/ \E key \in AppStoreConnectKeys, issued_at \in IssuedAts,
          expiration_time_dur \in ExpirationTimeDurs :
            create_app_store_connect_api_token(key, issued_at, expiration_time_dur)
    \/ \E key \in SearchAdsKeys, issued_at \in IssuedAts,
          expiration_time_dur \in ExpirationTimeDurs :
            create_search_ads_client_secret(key, issued_at, expiration_time_dur)
    \/ \E key \in SiwaKeys, issued_at \in IssuedAts,
          expiration_time_dur \in ExpirationTimeDurs :
            create_siwa_client_secret(key, issued_at, expiration_time_dur)

SpecSigner == Init /\ [][NextSigner]_vars

\* ------------------------------------------------------------------ claims

\* A step that publishes a token: a set(), or a request() whose exchange succeeded.
publishes_token ==
    \/ \E m \in Managers, body \in Bodies, t \in TimePoints : set(m, body, t)
    \/ \E p \in Tasks, body \in Bodies : request_exchange_ok(p, body)

\* C1: every get_value() made since the last publish returned the token of that
\* publish: after set(record, t), record.access_token, and nothing else.
C1_ReadersSeeLastPublish ==
    got.called => got.value = last_pub.token

\* C1: the loop's request published tok1, a set() then published tok2, and a
\* reader has since called get_value() and got tok2.
C1_Witness ==
    /\ last_pub.op = "set"
    /\ last_pub.token = Some("tok2")
    /\ got.called
    /\ got.value = Some("tok2")
    /\ task["run"].ret.some
    /\ task["run"].ret.val.ok
    /\ task["run"].ret.val.body.access_token = "tok1"

\* C2: clear() leaves get_value() absent, and from absent it becomes present only
\* by a set() or by a request() whose exchange succeeded.
C2_ClearedUntilPublish ==
    [][/\ \A m \in Managers : clear(m) => \A b \in Managers : value_of(b)' = None
       /\ (~ACCESS_TOKEN_STORAGE.some /\ ACCESS_TOKEN_STORAGE'.some) => publishes_token
      ]_vars

\* C2: after a clear(), the loop's request has failed at the exchange and a reader
\* has called get_value() and got absent.
C2_Witness ==
    /\ last_pub.op = "clear"
    /\ ~ACCESS_TOKEN_STORAGE.some
    /\ got.called
    /\ got.value = None
    /\ task["run"].pc = "sleep"
    /\ task["run"].ret = Some([ok |-> FALSE, err |-> "AccessTokenRequestFailed"])
    /\ timer = SLEEP_RETRY

\* C3 (as claimed): new() returns a Manager with both slots empty, and a set(), a
\* clear() or a successful request() on one Manager leaves what get_value()
\* returns on every other Manager as it was.
C3_InstanceScoped ==
    [][/\ \A m \in Managers : new(m) =>
              ~ACCESS_TOKEN_STORAGE'.some /\ ~CLIENT_SECRET_STORAGE'.some
       /\ \A a \in Managers : \A b \in managers \ {a} :
              (\/ \E body \in Bodies, t \in TimePoints : set(a, body, t)
               \/ clear(a)
               \/ \E p \in Tasks, body \in Bodies :
                      task[p].self = Some(a) /\ request_exchange_ok(p, body))
              => value_of(b)' = value_of(b)
      ]_vars

\* C3 (amended): a Manager holds no state: new() leaves the two process-wide slots
\* as they are, and a set(), a clear() or a successful request() on any Manager
\* decides what get_value() returns on every Manager.
C3_InstancesShareSlots ==
    [][/\ \A m \in Managers : new(m) =>
              /\ ACCESS_TOKEN_STORAGE' = ACCESS_TOKEN_STORAGE
              /\ CLIENT_SECRET_STORAGE' = CLIENT_SECRET_STORAGE
       /\ \A a \in Managers : \A b \in managers :
              /\ \A body \in Bodies, t \in TimePoints :
                     set(a, body, t) => value_of(b)' = Some(body.access_token)
              /\ clear(a) => value_of(b)' = None
              /\ \A p \in Tasks, body \in Bodies :
                     task[p].self = Some(a) /\ request_exchange_ok(p, body)
                         => value_of(b)' = Some(body.access_token)
      ]_vars

\* C3: a token was set when A was the only Manager; B has been constructed since,
\* and get_value() has returned that token.
C3_Witness ==
    /\ managers = {"A", "B"}
    /\ last_pub.op = "set"
    /\ last_pub.managers = {"A"}
    /\ got.called
    /\ got.value = last_pub.token
    /\ got.value.some

\* What a freshness check reported, read off the step that applied it: run_check
\* goes to the polling sleep on a fresh token, to request() on none, and unwinds on
\* a panic; request_begin goes on to the provider with a fresh assertion and to the
\* signer with none.
TokenEntry == ACCESS_TOKEN_STORAGE.val
AssertionEntry == CLIENT_SECRET_STORAGE.val

\* C4 (as claimed): for a non-negative elapsed time, a token entry with expires_in
\* is reported fresh exactly when now - issued_at < expires_in - 300 s, whatever
\* expires_in is (never, below 300 s); an entry without expires_in is always
\* reported fresh.
C4_FreshExactlyInsideMargin ==
    [][run_check /\ ACCESS_TOKEN_STORAGE.some =>
        IF TokenEntry.body.expires_in.some
        THEN now >= TokenEntry.issued_at =>
                 (task'["run"].pc = "sleep"
                     <=> now - TokenEntry.issued_at < TokenEntry.body.expires_in.val - 300)
        ELSE task'["run"].pc = "sleep"]_vars

\* C4 (the failing input): the head of the loop has read an entry whose expires_in
\* is below the margin, at a non-negative elapsed time, and did not find it stale.
C4_Witness ==
    /\ ACCESS_TOKEN_STORAGE.some
    /\ TokenEntry.body.expires_in = Some(200)
    /\ now = TokenEntry.issued_at + 100
    /\ task["run"].pc \in {"sleep", "panicked"}
    /\ timer \in {0, SLEEP_POLL}

\* C5: for a non-negative elapsed time, a cached assertion is reported fresh (and
\* handed to the request) exactly when now - issued_at < 7 days - 600 s; an empty
\* slot is always reported absent.
C5_AssertionFreshInsideWindow ==
    [][request_begin("run") =>
        /\ ~CLIENT_SECRET_STORAGE.some => task'["run"].pc = "sign"
        /\ CLIENT_SECRET_STORAGE.some /\ now >= AssertionEntry.issued_at =>
               /\ task'["run"].pc \in {"provider", "sign"}
               /\ task'["run"].pc = "provider"
                      <=> now - AssertionEntry.issued_at < 7 * 86400 - 600
               /\ task'["run"].pc = "provider"
                      => task'["run"].client_secret = Some(AssertionEntry.client_secret)]_vars

\* C5: an assertion issued at now - 7 d + 500 s has been asked for and reported absent.
C5_Witness ==
    /\ CLIENT_SECRET_STORAGE.some
    /\ AssertionEntry.issued_at = now - 7 * 86400 + 500
    /\ task["run"].pc = "sign"
    /\ task["run"].issued_at = Some(now)

\* C5: an assertion issued at now - 7 d + 700 s has been asked for and reported present.
C5_WitnessPresent ==
    /\ CLIENT_SECRET_STORAGE.some
    /\ AssertionEntry.issued_at = now - 7 * 86400 + 700
    /\ task["run"].pc = "provider"

\* The token check reports stale at clock reading t (it returns None, no panic).
token_stale_at(t) ==
    LET r == get_not_expired_access_token(ACCESS_TOKEN_STORAGE, t, overflow_checks)
    IN  ACCESS_TOKEN_STORAGE.some /\ ~r.panic /\ ~r.value.some

\* The assertion check reports stale at clock reading t.
assertion_stale_at(t) ==
    /\ CLIENT_SECRET_STORAGE.some
    /\ ~get_not_expired_client_secret(CLIENT_SECRET_STORAGE, t).some

same_entries ==
    /\ ACCESS_TOKEN_STORAGE' = ACCESS_TOKEN_STORAGE
    /\ CLIENT_SECRET_STORAGE' = CLIENT_SECRET_STORAGE

C7_NegativeElapsedNotFresh ==
    [][/\ run_check /\ ACCESS_TOKEN_STORAGE.some /\ now < TokenEntry.issued_at
              => task'["run"].pc = "request"
       /\ request_begin("run") /\ CLIENT_SECRET_STORAGE.some
              /\ now < AssertionEntry.issued_at
              => task'["run"].pc = "sign"]_vars

\* C7 (amended): with the clock before an entry's issued_at, neither check aborts;
\* the assertion check reports not fresh; the token check reports not fresh when
\* the entry has an expires_in and fresh when it has none.
C7_NegativeElapsedNotFreshUnlessNoExpiry ==
    [][/\ run_check /\ ACCESS_TOKEN_STORAGE.some /\ now < TokenEntry.issued_at
              => task'["run"].pc = IF TokenEntry.body.expires_in.some
                                   THEN "request" ELSE "sleep"
       /\ request_begin("run") /\ CLIENT_SECRET_STORAGE.some
              /\ now < AssertionEntry.issued_at
              => task'["run"].pc = "sign"]_vars

\* C7: the assertion check has run with the clock before the entry's issued_at, and
\* the request has gone to the signer.
C7_Witness ==
    /\ CLIENT_SECRET_STORAGE.some
    /\ now < AssertionEntry.issued_at
    /\ task["run"].pc = "sign"
    /\ task["run"].issued_at = Some(now)

\* C8: a request() that starts while the cached assertion is inside its window
\* (0 <= now - issued_at < 7 days - 600 s) does not call the signer and hands the
\* cached assertion to the exchange; one that starts outside it calls the signer,
\* whose assertion replaces the cached one.
C8_SignerOncePerWindow ==
    [][\A p \in Tasks :
        /\ request_begin(p) =>
               IF /\ CLIENT_SECRET_STORAGE.some
                  /\ now >= AssertionEntry.issued_at
                  /\ now - AssertionEntry.issued_at < 7 * 86400 - 600
               THEN /\ task'[p].pc = "provider"
                    /\ task'[p].client_secret = Some(AssertionEntry.client_secret)
                    /\ ~task'[p].signed
               ELSE /\ task'[p].pc = "sign"
                    /\ task'[p].issued_at = Some(now)
        /\ request_sign_ok(p) =>
               /\ task'[p].signed
               /\ task'[p].client_secret = Some([iat |-> now, exp |-> now + 7 * 86400])
               /\ CLIENT_SECRET_STORAGE' =
                      Some([client_secret |-> task'[p].client_secret.val,
                            issued_at |-> task[p].issued_at.val])
        /\ request_provider_ok(p) =>
               /\ task'[p].pc = "exchange"
               /\ task'[p].client_secret = task[p].client_secret
               /\ task'[p].signed = task[p].signed
        /\ task'[p].pc \in {"provider", "exchange"} /\ ~task'[p].signed
               => CLIENT_SECRET_STORAGE' = CLIENT_SECRET_STORAGE
      ]_vars

\* C8: a second request() is at the exchange with the assertion an earlier one
\* signed and cached, without having called the signer itself.
C8_Witness ==
    /\ task["caller"].pc = "exchange"
    /\ ~task["caller"].signed
    /\ CLIENT_SECRET_STORAGE.some
    /\ task["caller"].client_secret = Some(AssertionEntry.client_secret)

\* C8: a request() that started after the cached assertion's window had elapsed
\* is on its way to the signer.
C8_WitnessResigned ==
    /\ task["caller"].pc = "sign"
    /\ task["caller"].issued_at = Some(now)
    /\ CLIENT_SECRET_STORAGE.some
    /\ now - AssertionEntry.issued_at >= 7 * 86400 - 600

\* C9: a request() that fails, at the signer, at the provider or at the exchange,
\* leaves the token slot as it is, as does every step of request() but a successful
\* exchange; an assertion it signed is in the assertion slot when a later stage
\* fails, stays there, and is reused by a request() that starts inside its window.
C9_FailureKeepsCaches ==
    [][\A p \in Tasks :
        /\ request_sign_err(p) =>
               /\ ACCESS_TOKEN_STORAGE' = ACCESS_TOKEN_STORAGE
               /\ CLIENT_SECRET_STORAGE' = CLIENT_SECRET_STORAGE
               /\ task'[p].ret = Some([ok |-> FALSE, err |-> "ClientSecretCreateFailed"])
        /\ request_provider_err(p) =>
               /\ ACCESS_TOKEN_STORAGE' = ACCESS_TOKEN_STORAGE
               /\ CLIENT_SECRET_STORAGE' = CLIENT_SECRET_STORAGE
               /\ task'[p].ret = Some([ok |-> FALSE, err |-> "OauthProviderMakeFailed"])
        /\ request_exchange_err(p) =>
               /\ ACCESS_TOKEN_STORAGE' = ACCESS_TOKEN_STORAGE
               /\ CLIENT_SECRET_STORAGE' = CLIENT_SECRET_STORAGE
               /\ task'[p].ret = Some([ok |-> FALSE, err |-> "AccessTokenRequestFailed"])
        /\ (request_provider_err(p) \/ request_exchange_err(p)) /\ task[p].signed =>
               /\ CLIENT_SECRET_STORAGE'.some
               /\ CLIENT_SECRET_STORAGE'.val.client_secret = task[p].client_secret.val
        /\ (request_begin(p) \/ request_sign_ok(p) \/ request_provider_ok(p)) =>
               ACCESS_TOKEN_STORAGE' = ACCESS_TOKEN_STORAGE
        /\ request_begin(p) /\ task[p].ret.some /\ ~task[p].ret.val.ok /\ task[p].signed
               /\ CLIENT_SECRET_STORAGE.some
               /\ now >= AssertionEntry.issued_at
               /\ now - AssertionEntry.issued_at < 7 * 86400 - 600
               => /\ task'[p].pc = "provider"
                  /\ task'[p].client_secret = Some(AssertionEntry.client_secret)
                  /\ ~task'[p].signed
      ]_vars

\* C9: a request() signed an assertion and then failed at the exchange; the token
\* published before it is still in the token slot, the assertion is cached, and the
\* next request() has started inside the assertion's window.
C9_Witness ==
    /\ task["caller"].pc = "request"
    /\ task["caller"].ret = Some([ok |-> FALSE, err |-> "AccessTokenRequestFailed"])
    /\ task["caller"].signed
    /\ CLIENT_SECRET_STORAGE.some
    /\ now >= AssertionEntry.issued_at
    /\ now - AssertionEntry.issued_at < 7 * 86400 - 600
    /\ ACCESS_TOKEN_STORAGE.some

\* The token entries that are stale at clock reading t by the freshness rule
\* (fresh: no expires_in, or t - issued_at < expires_in - 300 s), already issued.
StaleEntries(t) ==
    {e \in TokenEntries :
        /\ e.val.body.expires_in.some
        /\ e.val.issued_at <= t
        /\ ~(t - e.val.issued_at < e.val.body.expires_in.val - 300)}

\* SpecStub: run() executes on an empty or stale token slot, against an exchange
\* stub that fails n times and then succeeds.  The loop is scheduled, the stub
\* answers, and every sleep and timeout elapses: each step of the loop is weakly
\* fair.  The clock only moves forwards.
InitStub ==
    /\ now = 3400
    /\ overflow_checks \in BOOLEAN
    /\ managers = Managers
    /\ ACCESS_TOKEN_STORAGE \in {None} \cup StaleEntries(now)
    /\ CLIENT_SECRET_STORAGE = None
    /\ task = [p \in Tasks |-> IF p = "run"
                               THEN [IdleTask EXCEPT !.pc = "check", !.self = Some("A")]
                               ELSE IdleTask]
    /\ timer = 0
    /\ \E n \in 0..MaxFail : exchange_stub = StubExchange(n)
    /\ callbacks = [ok |-> 0, err |-> 0, abandoned |-> FALSE]
    /\ last_pub = publish(IF ACCESS_TOKEN_STORAGE.some THEN "set" ELSE "init",
                          ACCESS_TOKEN_STORAGE, Managers)
    /\ got = NotCalled
    /\ create_call = NoCreate

NextStub ==
    \/ time_passes(CoarsePoints)
    \/ run_check
    \/ request_begin("run")
    \/ request_sign_ok("run")
    \/ request_provider_ok("run")
    \/ \E body \in Bodies : request_exchange_ok("run", body)
    \/ request_exchange_err("run")
    \/ run_callback_done
    \/ run_callback_timeout
    \/ run_sleep_done

SpecStub ==
    /\ InitStub
    /\ [][NextStub]_vars
    /\ WF_vars(run_check)
    /\ WF_vars(request_begin("run"))
    /\ WF_vars(request_sign_ok("run"))
    /\ WF_vars(request_provider_ok("run"))
    /\ WF_vars(\E body \in Bodies : request_exchange_ok("run", body))
    /\ WF_vars(request_exchange_err("run"))
    /\ WF_vars(run_callback_done \/ run_callback_timeout)
    /\ WF_vars(run_sleep_done)

\* run() has delivered the n error callbacks and a success callback, the token of
\* its request is published, and the loop is running.
Recovered ==
    /\ callbacks.err = exchange_stub.n
    /\ callbacks.ok >= 1
    /\ ACCESS_TOKEN_STORAGE.some
    /\ last_pub.op = "request"
    /\ task["run"].pc \in {"check", "request", "sign", "provider", "exchange",
                           "callback", "sleep"}

\* C10 (as claimed): on an empty or stale token slot, with a stub that fails n times
\* and then succeeds, run() delivers the n error callbacks before any success
\* callback and eventually a success callback, with the token published and the
\* loop still running.
C10_RecoversAfterFailures ==
    /\ [](callbacks.ok >= 1 => callbacks.err = exchange_stub.n)
    /\ <>Recovered

\* The same, for the starts whose token slot is empty or holds an entry with an
\* expires_in of at least the 300 s margin.
RecoversOffTheMargin ==
    (ACCESS_TOKEN_STORAGE.some =>
         (TokenEntry.body.expires_in.some => TokenEntry.body.expires_in.val >= 300))
        => C10_RecoversAfterFailures

\* C10 (the failing input): the loop has read, at its head, a stale entry whose
\* expires_in is below the margin, and has not gone on to request().
C10_Witness ==
    /\ last_pub.op = "set"
    /\ ACCESS_TOKEN_STORAGE.some
    /\ TokenEntry.body.expires_in = Some(200)
    /\ task["run"].pc \in {"sleep", "panicked"}
    /\ callbacks = [ok |-> 0, err |-> 0, abandoned |-> FALSE]

\* The positions of run() from which its loop goes on.
RunPositions == {"check", "request", "sign", "provider", "exchange", "callback", "sleep"}

\* C11 (as claimed): run(), once started, is at a position of its loop with a next
\* step to take: it has not returned and has not aborted, whatever request()
\* returned, whatever the callback did, whatever entry its check read.
C11_NoTerminalState ==
    task["run"].pc # "idle" =>
        /\ task["run"].pc \in RunPositions
        /\ ENABLED run_steps(Bodies)

\* C11 (the failing input): in a build with overflow checks, the head of the loop
\* has read an entry whose expires_in is below the margin, and run() has unwound.
C11_Witness ==
    /\ overflow_checks
    /\ ACCESS_TOKEN_STORAGE.some
    /\ TokenEntry.body.expires_in = Some(200)
    /\ now >= TokenEntry.issued_at
    /\ task["run"].pc = "panicked"
    /\ ~ENABLED run_steps(Bodies)

\* The same, in the builds where the subtraction at line 194 wraps.
NoTerminalStateWhenWrapping ==
    ~overflow_checks => C11_NoTerminalState

\* The token check reports fresh at clock reading t (it returns the body).
token_fresh_at(t) ==
    LET r == get_not_expired_access_token(ACCESS_TOKEN_STORAGE, t, overflow_checks)
    IN  ~r.panic /\ r.value.some

\* C12: a check of run() that finds the token fresh takes the loop to a sleep of
\* 3 minutes without a call of the signer, the exchange or the callback, and that
\* sleep ends at the check; the loop enters request() only from a check that found
\* no fresh token.
C12_FreshCheckOnlySleeps ==
    [][/\ run_check /\ token_fresh_at(now) =>
              /\ task'["run"].pc = "sleep"
              /\ timer' = 3 * 60
              /\ task'["run"].ret = None
              /\ ~task'["run"].signed
              /\ ACCESS_TOKEN_STORAGE' = ACCESS_TOKEN_STORAGE
              /\ CLIENT_SECRET_STORAGE' = CLIENT_SECRET_STORAGE
              /\ callbacks' = callbacks
       /\ task["run"].pc = "sleep" /\ task'["run"] # task["run"] =>
              task'["run"].pc = "check"
       /\ task'["run"].pc = "request" /\ task["run"].pc # "request" =>
              /\ task["run"].pc = "check"
              /\ ~token_fresh_at(now)
      ]_vars

\* C12: a token with an hour to live was set, the loop's check has found it fresh,
\* and the loop is in its 3-minute sleep having called nothing.
C12_Witness ==
    /\ last_pub.op = "set"
    /\ ACCESS_TOKEN_STORAGE.some
    /\ TokenEntry.body.expires_in = Some(3600)
    /\ token_fresh_at(now)
    /\ task["run"].pc = "sleep"
    /\ timer = SLEEP_POLL
    /\ task["run"].ret = None
    /\ ~task["run"].signed
    /\ ~CLIENT_SECRET_STORAGE.some

\* run() is in the sleep that follows the callback of a failed request().
RetrySleep ==
    /\ task["run"].pc = "sleep"
    /\ task["run"].ret.some
    /\ ~task["run"].ret.val.ok

\* C13: in run(), a request() that completes is followed by one invocation of the
\* callback with its result, and the callback by a sleep: 3 minutes after Ok, 5
\* seconds after Err, the same 5 seconds after the 1st, the 2nd and every later
\* consecutive failure; and after each failure the loop calls request() again.
C13_CallbackThenSleep ==
    /\ [][/\ (\A body \in Bodies : request_exchange_ok("run", body) =>
                 /\ task'["run"].pc = "callback"
                 /\ task'["run"].ret.val.ok
                 /\ task'["run"].ret.val.body = body
                 /\ callbacks'.ok = callbacks.ok + 1
                 /\ callbacks'.err = callbacks.err)
          /\ request_exchange_err("run") =>
                 /\ task'["run"].pc = "callback"
                 /\ task'["run"].ret = Some([ok |-> FALSE, err |-> "AccessTokenRequestFailed"])
                 /\ callbacks'.err = callbacks.err + 1
                 /\ callbacks'.ok = callbacks.ok
          /\ (callbacks'.ok # callbacks.ok \/ callbacks'.err # callbacks.err) =>
                 /\ task["run"].pc = "exchange"
                 /\ task'["run"].pc = "callback"
          /\ task["run"].pc = "callback" /\ task'["run"] # task["run"] =>
                 /\ task'["run"].pc = "sleep"
                 /\ timer' = IF task["run"].ret.val.ok THEN 3 * 60 ELSE 5
                 /\ task'["run"].ret = task["run"].ret
          /\ task'["run"].pc = "sleep" /\ task["run"].pc # "sleep" =>
                 task["run"].pc \in {"check", "callback"}
         ]_vars
    /\ [](\A k \in 1..MaxFail : RetrySleep /\ callbacks.err = k => timer = 5)
    /\ (RetrySleep ~> task["run"].pc = "request")

\* C13: the second consecutive request() of the loop (the last the stub fails)
\* has failed, its error callback has been invoked, and the loop is in a 5-second
\* sleep.
C13_Witness ==
    /\ exchange_stub.n = MaxFail
    /\ callbacks.err = MaxFail
    /\ callbacks.ok = 0
    /\ RetrySleep
    /\ timer = SLEEP_RETRY

\* C14: in run(), the callback is invoked under a timeout of 6 s after Ok and 3 s
\* after Err; a callback that times out is abandoned and the loop goes to the sleep
\* it goes to when the callback completes (3 minutes after Ok, never the 5 s of the
\* retry path), with both slots as they were; that sleep ends at the check, not
\* in a request().
C14_TimeoutIsNotAFailure ==
    [][/\ task["run"].pc = "callback" =>
              timer = IF task["run"].ret.val.ok THEN 6 ELSE 3
       /\ (run_callback_timeout \/ run_callback_done) =>
              /\ task'["run"].pc = "sleep"
              /\ timer' = IF task["run"].ret.val.ok THEN 3 * 60 ELSE 5
              /\ ACCESS_TOKEN_STORAGE' = ACCESS_TOKEN_STORAGE
              /\ CLIENT_SECRET_STORAGE' = CLIENT_SECRET_STORAGE
              /\ last_pub' = last_pub
       /\ run_callback_timeout => callbacks'.abandoned
       /\ task["run"].pc = "sleep" /\ callbacks.abandoned /\ task'["run"] # task["run"] =>
              task'["run"].pc = "check"
      ]_vars

\* C14: the callback of a successful request() has timed out; the loop is in its
\* 3-minute sleep and the token of that request() is still published.
C14_Witness ==
    /\ callbacks.abandoned
    /\ task["run"].pc = "sleep"
    /\ task["run"].ret.some
    /\ task["run"].ret.val.ok
    /\ timer = SLEEP_POLL
    /\ last_pub.op = "request"
    /\ ACCESS_TOKEN_STORAGE =
           Some([body |-> task["run"].ret.val.body,
                 issued_at |-> task["run"].ret.val.issued_at])

\* Task p is inside a call of request().
in_request(p) == task[p].pc \in {"request", "sign", "provider", "exchange"}

\* C15: one request() calls the signer at most once and the exchange at most once:
\* it goes from its start to the signer or straight to the provider, from the
\* provider to the exchange, and never back.  A failure of the signer returns
\* ClientSecretCreateFailed and one of the provider OauthProviderMakeFailed, both
\* without an exchange; a failure of the exchange returns AccessTokenRequestFailed.
\* Each ends the call, and a request() starts only by a new call: of the caller,
\* or of the loop from its check.
C15_NoRetryInsideRequest ==
    [][\A p \in Tasks :
        /\ request_sign_err(p) =>
               /\ task[p].pc = "sign"
               /\ task'[p].ret = Some([ok |-> FALSE, err |-> "ClientSecretCreateFailed"])
               /\ ~in_request(p)'
        /\ request_provider_err(p) =>
               /\ task[p].pc = "provider"
               /\ task'[p].ret = Some([ok |-> FALSE, err |-> "OauthProviderMakeFailed"])
               /\ ~in_request(p)'
        /\ request_exchange_err(p) =>
               /\ task[p].pc = "exchange"
               /\ task'[p].ret = Some([ok |-> FALSE, err |-> "AccessTokenRequestFailed"])
               /\ ~in_request(p)'
        /\ task'[p].pc = "sign" /\ task[p].pc # "sign" => task[p].pc = "request"
        /\ task'[p].pc = "provider" /\ task[p].pc # "provider" =>
               task[p].pc \in {"request", "sign"}
        /\ task'[p].pc = "exchange" /\ task[p].pc # "exchange" =>
               task[p].pc = "provider"
        /\ task'[p].pc = "request" /\ task[p].pc # "request" =>
               IF p = "run" THEN run_check ELSE \E m \in Managers : caller_request(m)
      ]_vars

\* C15: the caller's request() has failed at the exchange and returned, and the
\* loop's own request(), a new call made from its check, is at the exchange.
C15_Witness ==
    /\ task["caller"].pc = "idle"
    /\ task["caller"].ret = Some([ok |-> FALSE, err |-> "AccessTokenRequestFailed"])
    /\ task["caller"].signed
    /\ task["run"].pc = "exchange"
    /\ ~task["run"].signed

\* C15: a request() has returned the signer's failure.
C15_WitnessSigner ==
    /\ task["caller"].pc = "idle"
    /\ task["caller"].ret = Some([ok |-> FALSE, err |-> "ClientSecretCreateFailed"])
    /\ ~CLIENT_SECRET_STORAGE.some
    /\ ~ACCESS_TOKEN_STORAGE.some

\* C16: refreshes are not deduplicated.  A request() that has its provider starts
\* its exchange whether or not another task's exchange is in flight, and no step
\* of a request() waits for or cancels another's; each exchange that succeeds
\* publishes its own record with its own issued_at over whatever is in the token
\* slot, so of two in flight the last to complete is the one left published.
C16_NoDeduplication ==
    /\ [](\A p \in Tasks : \A q \in Tasks \ {p} :
             task[p].pc = "provider" /\ task[q].pc = "exchange" =>
                 ENABLED request_provider_ok(p))
    /\ [][\A p \in Tasks : \A q \in Tasks \ {p} :
            /\ (\A body \in Bodies : request_exchange_ok(p, body) =>
                   /\ ACCESS_TOKEN_STORAGE' =
                          Some([body |-> body, issued_at |-> task[p].issued_at.val])
                   /\ task'[q] = task[q])
            /\ request_provider_ok(p) /\ task[q].pc = "exchange" =>
                   /\ task'[p].pc = "exchange"
                   /\ task'[q] = task[q]
          ]_vars

\* C16: the loop's check found no fresh token and its request() is at the exchange,
\* and the caller's request() is at the exchange too: two exchanges are in flight.
C16_Witness ==
    /\ task["run"].pc = "exchange"
    /\ task["caller"].pc = "exchange"
    /\ ~token_fresh_at(now)

\* C16: the caller's exchange started first and completed last.  The loop's
\* request() has published and is at its callback; the caller's has completed
\* since, and its token is the one published.
C16_WitnessLastWins ==
    /\ task["run"].pc = "callback"
    /\ task["run"].ret.val.ok
    /\ task["run"].ret.val.body.access_token = "tok1"
    /\ task["caller"].pc = "idle"
    /\ task["caller"].ret.some
    /\ task["caller"].ret.val.ok
    /\ task["caller"].ret.val.body.access_token = "tok2"
    /\ task["caller"].ret.val.issued_at < task["run"].ret.val.issued_at
    /\ ACCESS_TOKEN_STORAGE.some
    /\ TokenEntry.body.access_token = "tok2"
    /\ TokenEntry.issued_at = task["caller"].ret.val.issued_at

\* The cap of a signer and the expiration it uses when given none, in seconds.
cap_of(signer) ==
    CASE signer = "app_store_connect" -> 6 * 86400
      [] signer = "search_ads" -> 180 * 86400
      [] signer = "siwa" -> 15777000

default_of(signer) ==
    CASE signer = "app_store_connect" -> 20 * 60
      [] signer = "search_ads" -> 180 * 86400
      [] signer = "siwa" -> 15777000

min(a, b) == IF a <= b THEN a ELSE b

C17_WitnessDefault ==
    /\ create_call.signer = "search_ads"
    /\ create_call.expiration_time_dur = None
    /\ create_call.result.ok
    /\ create_call.result.value.exp = create_call.result.value.iat + 180 * 86400

\* C17: the source's test: 10 hours asked of the App Store Connect signer, kept.
C17_WitnessTest ==
    /\ create_call.signer = "app_store_connect"
    /\ create_call.expiration_time_dur = Some(Duration(60 * 60 * 10, 0))
    /\ create_call.result.ok
    /\ create_call.result.value.exp = create_call.result.value.iat + 36000

\* C18: in every state the token slot holds what the last publish passed to it, as
\* one whole: nothing after a clear(), and after a set() or a successful request()
\* that publish's record with that publish's issued_at; what a reader gets is that
\* snapshot's token.  The assertion slot changes only to the assertion a request()
\* signed together with the issued_at that same request() read.
C18_SnapshotsAreWhole ==
    /\ [](/\ ACCESS_TOKEN_STORAGE = last_pub.entry
          /\ got.called => got.value = access_token_of(last_pub.entry))
    /\ [][CLIENT_SECRET_STORAGE' # CLIENT_SECRET_STORAGE =>
            \E p \in Tasks :
                /\ request_sign_ok(p)
                /\ task[p].issued_at.some
                /\ CLIENT_SECRET_STORAGE' =
                       Some([client_secret |-> task'[p].client_secret.val,
                             issued_at |-> task[p].issued_at.val])
          ]_vars

\* C18: the loop's request() published a record and an issued_at; a set() has since
\* published another record with another issued_at, which is what the slot holds,
\* whole, and what a reader has got.
C18_Witness ==
    /\ task["run"].pc = "callback"
    /\ task["run"].ret.val.ok
    /\ last_pub.op = "set"
    /\ ACCESS_TOKEN_STORAGE = last_pub.entry
    /\ TokenEntry.body # task["run"].ret.val.body
    /\ TokenEntry.issued_at # task["run"].ret.val.issued_at
    /\ CLIENT_SECRET_STORAGE.some
    /\ got = [called |-> TRUE, value |-> Some(TokenEntry.body.access_token)]

\* C19: with a clock that does not move backwards, an assertion the freshness
\* query returns has a signed exp at least 600 s ahead of the clock: its cached
\* issued_at is not after its iat, and its exp is iat + 7 days, unclamped.
C19_CachedAssertionOutlivesMargin ==
    LET x == get_not_expired_client_secret(CLIENT_SECRET_STORAGE, now)
    IN  x.some =>
            /\ AssertionEntry.issued_at <= x.val.iat
            /\ x.val.exp = x.val.iat + 7 * 86400
            /\ x.val.exp - now >= 600

\* C19: a request() has been handed the cached assertion in the last second of its
\* window, 7 days - 601 s after it was issued; its exp is 601 s ahead.
C19_Witness ==
    /\ task["caller"].pc = "provider"
    /\ ~task["caller"].signed
    /\ CLIENT_SECRET_STORAGE.some
    /\ task["caller"].client_secret = Some(AssertionEntry.client_secret)
    /\ now - AssertionEntry.issued_at = 7 * 86400 - 601
    /\ AssertionEntry.client_secret.exp - now = 601

\* run() is in the polling sleep that follows a check that found the token fresh.
PollSleep ==
    /\ task["run"].pc = "sleep"
    /\ task["run"].ret = None
    /\ timer = SLEEP_POLL

\* C20 (as claimed): when a check finds fresh a token that has an expires_in, the
\* next check comes 180 s later and before the token's nominal expiry, issued_at +
\* expires_in; and a check that does not find the token fresh starts a request().
C20_NextCheckBeforeExpiry ==
    [][/\ run_sleep_elapsed /\ PollSleep /\ ACCESS_TOKEN_STORAGE.some =>
              /\ now' = now + 180
              /\ task'["run"].pc = "check"
              /\ TokenEntry.body.expires_in.some =>
                     now' < TokenEntry.issued_at + TokenEntry.body.expires_in.val
       /\ run_check /\ ~token_fresh_at(now) => task'["run"].pc = "request"
      ]_vars

\* The same, for the runs whose token entries have no expires_in or one of at
\* least the 300 s margin.
NextCheckBeforeExpiryOffTheMargin ==
    [][(\/ ~ACCESS_TOKEN_STORAGE.some
        \/ ~TokenEntry.body.expires_in.some
        \/ TokenEntry.body.expires_in.val >= 300) =>
        /\ run_sleep_elapsed /\ PollSleep /\ ACCESS_TOKEN_STORAGE.some =>
               /\ now' = now + 180
               /\ task'["run"].pc = "check"
               /\ TokenEntry.body.expires_in.some =>
                      now' < TokenEntry.issued_at + TokenEntry.body.expires_in.val
        /\ run_check /\ ~token_fresh_at(now) => task'["run"].pc = "request"
      ]_vars

\* C20 (the failing input): a check has found fresh a token that has an expires_in
\* below the margin and is past its nominal expiry, and the loop sleeps on.
C20_Witness ==
    /\ PollSleep
    /\ ACCESS_TOKEN_STORAGE.some
    /\ TokenEntry.body.expires_in = Some(200)
    /\ now > TokenEntry.issued_at + 200

\* A token that was fresh at one check has turned stale at the next, 180 s later
\* and before its nominal expiry, and the loop has started a request().
TurnedStaleBeforeExpiry ==
    /\ task["run"].pc = "request"
    /\ ACCESS_TOKEN_STORAGE.some
    /\ TokenEntry.body.expires_in = Some(500)
    /\ now = TokenEntry.issued_at + 360

\* C21 (as claimed): the issued_at a request() publishes with its token is not
\* later than the clock's reading when the exchange returns.
C21_IssuedAtNotAfterReturn ==
    [][\A p \in Tasks : \A body \in Bodies :
        request_exchange_ok(p, body) => ACCESS_TOKEN_STORAGE'.val.issued_at <= now]_vars

\* C21 (amended): the issued_at a request() publishes with its token is the
\* clock's reading from before its exchange started; while the exchange is in
\* flight that reading stays behind the clock through every step but a set-back
\* of the clock, and it is published and returned as read, over whatever the token
\* slot holds, a later issued_at included.
C21_IssuedAtReadBeforeExchange ==
    [][\A p \in Tasks :
        /\ request_provider_ok(p) => task'[p].issued_at = Some(now)
        /\ task[p].pc = "exchange" /\ task'[p].pc = "exchange" =>
               /\ task'[p].issued_at = task[p].issued_at
               /\ task[p].issued_at.val <= now /\ now' >= now =>
                      task'[p].issued_at.val <= now'
        /\ \A body \in Bodies : request_exchange_ok(p, body) =>
               /\ ACCESS_TOKEN_STORAGE'.val.issued_at = task[p].issued_at.val
               /\ task'[p].ret.val.issued_at = task[p].issued_at.val
               /\ now' = now
      ]_vars

\* C21: the token slot's issued_at has gone backwards.  The loop's request()
\* published a token with the issued_at it read; the caller's exchange, started at
\* an earlier reading of the clock, returned later and published that earlier
\* issued_at over it.
C21_Witness ==
    /\ task["run"].pc = "callback"
    /\ task["run"].ret.val.ok
    /\ task["caller"].pc = "idle"
    /\ task["caller"].ret.some
    /\ task["caller"].ret.val.ok
    /\ last_pub.op = "request"
    /\ last_pub.entry = Some([body |-> task["caller"].ret.val.body,
                              issued_at |-> task["caller"].ret.val.issued_at])
    /\ ACCESS_TOKEN_STORAGE = last_pub.entry
    /\ TokenEntry.issued_at = 0
    /\ task["run"].ret.val.issued_at = 604199
    /\ now = 604199

\* C22: a direct request() does not read the token slot.  Whether or not the
\* cached token is fresh, it goes from its start to the signer or the provider as
\* the assertion cache alone decides, from the provider to the exchange, and a
\* successful exchange puts its record and the issued_at read before it in the
\* token slot, in place of what was there, and returns that pair.
C22_RequestIgnoresTokenCache ==
    [][/\ request_begin("caller") =>
              task'["caller"].pc =
                  IF get_not_expired_client_secret(CLIENT_SECRET_STORAGE, now).some
                  THEN "provider" ELSE "sign"
       /\ request_sign_ok("caller") => task'["caller"].pc = "provider"
       /\ request_provider_ok("caller") => task'["caller"].pc = "exchange"
       /\ task'["caller"].pc = "idle" /\ task["caller"].pc # "idle"
              /\ task'["caller"].ret.val.ok => task["caller"].pc = "exchange"
       /\ \A body \in Bodies : request_exchange_ok("caller", body) =>
              /\ task["caller"].pc = "exchange"
              /\ ACCESS_TOKEN_STORAGE' =
                     Some([body |-> body, issued_at |-> task["caller"].issued_at.val])
              /\ task'["caller"].ret =
                     Some([ok |-> TRUE, body |-> body,
                           issued_at |-> task["caller"].issued_at.val])
              /\ task'["caller"].pc = "idle"
      ]_vars

\* C22: a token with an hour to live was set and is fresh, and a direct request()
\* made since is at the exchange.
C22_Witness ==
    /\ last_pub.op = "set"
    /\ token_fresh_at(now)
    /\ task["caller"].pc = "exchange"
    /\ task["caller"].issued_at = Some(now)

\* C22: a direct request() has returned the pair it published over a set() token.
C22_WitnessReplaced ==
    /\ last_pub.op = "request"
    /\ task["caller"].pc = "idle"
    /\ task["caller"].ret.some
    /\ task["caller"].ret.val.ok
    /\ ACCESS_TOKEN_STORAGE = Some([body |-> task["caller"].ret.val.body,
                                    issued_at |-> task["caller"].ret.val.issued_at])
    /\ TokenEntry.body.access_token = "tok2"
    /\ TokenEntry.issued_at = 3400

\* The cached assertion is inside its window at the clock's reading.
assertion_in_window ==
    /\ CLIENT_SECRET_STORAGE.some
    /\ now >= AssertionEntry.issued_at
    /\ now - AssertionEntry.issued_at < 7 * 86400 - 600

\* C23: set(), clear() and get_value() leave the assertion slot as it is; a
\* request() that starts after them inside the assertion's window is handed the
\* cached assertion and does not call the signer; the assertion slot changes only
\* in a request() that found no fresh assertion and whose signing succeeded.
C23_FacadeKeepsAssertion ==
    [][/\ \A m \in Managers :
              (\/ \E body \in Bodies, t \in TimePoints : set(m, body, t)
               \/ clear(m)
               \/ get_value(m)) => CLIENT_SECRET_STORAGE' = CLIENT_SECRET_STORAGE
       /\ \A p \in Tasks :
              /\ request_begin(p) /\ last_pub.op \in {"set", "clear"}
                     /\ assertion_in_window =>
                     /\ task'[p].pc = "provider"
                     /\ task'[p].client_secret = Some(AssertionEntry.client_secret)
                     /\ ~task'[p].signed
              /\ task'[p].pc = "sign" /\ task[p].pc # "sign" =>
                     /\ request_begin(p)
                     /\ ~get_not_expired_client_secret(CLIENT_SECRET_STORAGE, now).some
       /\ CLIENT_SECRET_STORAGE' # CLIENT_SECRET_STORAGE =>
              \E p \in Tasks : task[p].pc = "sign" /\ request_sign_ok(p)
      ]_vars

\* C23: with an assertion cached, clear() emptied the token slot; a request() is at
\* the exchange with the cached assertion and has not called the signer.
C23_Witness ==
    /\ last_pub.op = "clear"
    /\ ~ACCESS_TOKEN_STORAGE.some
    /\ assertion_in_window
    /\ task["caller"].pc = "exchange"
    /\ ~task["caller"].signed
    /\ task["caller"].client_secret = Some(AssertionEntry.client_secret)

\* C24: in run(), the callback is invoked with Ok only by a request() whose
\* exchange succeeded, with the token slot then holding the pair the callback is
\* given; it is invoked with Err only by a request() that failed, no step of which
\* wrote the token slot.
C24_CallbackAfterPublish ==
    [][/\ \A body \in Bodies : request_exchange_ok("run", body) =>
              /\ task'["run"].pc = "callback"
              /\ timer' = 6
              /\ task'["run"].ret =
                     Some([ok |-> TRUE, body |-> body,
                           issued_at |-> task["run"].issued_at.val])
              /\ ACCESS_TOKEN_STORAGE' =
                     Some([body |-> body, issued_at |-> task["run"].issued_at.val])
              /\ last_pub'.op = "request"
              /\ last_pub'.entry = ACCESS_TOKEN_STORAGE'
       /\ task'["run"].pc = "callback" /\ task["run"].pc # "callback" =>
              IF task'["run"].ret.val.ok
              THEN \E body \in Bodies : request_exchange_ok("run", body)
              ELSE /\ timer' = 3
                   /\ ACCESS_TOKEN_STORAGE' = ACCESS_TOKEN_STORAGE
                   /\ last_pub' = last_pub
       /\ in_request("run") /\ in_request("run")' /\ task'["run"] # task["run"] =>
              /\ ACCESS_TOKEN_STORAGE' = ACCESS_TOKEN_STORAGE
              /\ last_pub' = last_pub
      ]_vars

\* C24: the loop's request() has published its pair and the callback has been
\* invoked with that pair, under its 6-second timeout.
C24_Witness ==
    /\ task["run"].pc = "callback"
    /\ timer = CALLBACK_TIMEOUT_OK
    /\ task["run"].ret.val.ok
    /\ last_pub.op = "request"
    /\ last_pub.entry = Some([body |-> task["run"].ret.val.body,
                              issued_at |-> task["run"].ret.val.issued_at])
    /\ ACCESS_TOKEN_STORAGE = last_pub.entry

\* C24: the loop's request() has failed with a set() token in the slot, which is
\* still there, and the callback has been invoked with the error.
C24_WitnessErr ==
    /\ task["run"].pc = "callback"
    /\ timer = CALLBACK_TIMEOUT_ERR
    /\ ~task["run"].ret.val.ok
    /\ last_pub.op = "set"
    /\ ACCESS_TOKEN_STORAGE = last_pub.entry

====
